---- MODULE Spec2Model ----
(***************************************************************************)
(* Model of the swap lifecycle coordinator, CrossChainCoordinator          *)
(* (src/python/src/cross_chain_coordinator.py), its expiry monitor thread  *)
(* (src/python/src/app.py) and the chain adapter web3_manager it calls.    *)
(*                                                                         *)
(* Threads: the API callers Procs, each running one public operation at a  *)
(* time, and the monitor thread.  The shared state is the two dictionaries *)
(* active_swaps and swap_secrets, the CrossChainSwap objects they refer to *)
(* (heap: Python dictionaries hold references, a thread keeps its          *)
(* reference across its chain calls) and the mutex _lock (lock).  The      *)
(* monitor thread runs the loop monitor_swaps: a sweep, then a time.sleep. *)
(* Everything a thread does between two accesses of the shared state - its *)
(* calls of the chain adapter, up to and including the acquisition of the  *)
(* lock and the first write that follow them - is one step whose outcome   *)
(* is chosen nondeterministically among the results the adapter can        *)
(* return.                                                                 *)
(***************************************************************************)
EXTENDS Integers, Sequences, FiniteSets, TLC

\* ---------------------------------------------------------------- bounds
MaxHeight == 2      \* block heights of each chain range over 1..MaxHeight
MaxSwaps == 2       \* CrossChainSwap objects created in one behaviour
MaxCalls == 3       \* public operations invoked in one behaviour
MaxSecretLength == 3    \* configured secret lengths range over 1..MaxSecretLength

\* ------------------------------------------------------ program constants
default_time_lock_blocks == 100
min_swap_amount == 1
max_swap_amount == 1000
secret_length == 32
sleep_after_sweep == 30     \* monitor_swaps: time.sleep(30)
sleep_after_error == 60     \* monitor_swaps: time.sleep(60)

\* ------------------------------------------------------------ small sets
Procs == {"t1", "t2"}
SwapIds == {"0xa", "0xb"}
CHAINS == {"ethereum", "bsc"}
Senders == {"", "alice"}
Recipients == {"", "bob"}
Amounts == {min_swap_amount - 1, min_swap_amount, max_swap_amount + 1}
TimeLockInputs == {<<1>>}                \* Optional[int]: <<>> is None
Heights == 1..MaxHeight

TimeStep == 30      \* seconds that pass in one step of a time.sleep

Free == "free"
Monitor == "monitor"
NullRef == 0

\* SwapStatus
INITIATED == "initiated"
COMPLETED == "completed"
REFUNDED == "refunded"
EXPIRED == "expired"
FAILED == "failed"

\* hashlib.sha256: an injective map from secrets to digests
SHA256(s) == [sha256 |-> s]

\* a transaction hash names the call that sent it: the thread, or for the
\* lock transaction of an initiate the number of its token, and the function
TxHash(by, fn) == [by |-> by, fn |-> fn]

VARIABLES
    active_swaps,   \* swap id -> reference of the stored CrossChainSwap, NullRef when absent
    swap_secrets,   \* swap id -> <<secret>>, <<>> when absent
    heap,           \* the CrossChainSwap objects, in order of creation
    lock,           \* holder of self._lock, or Free
    height,         \* chain -> current block height
    pc,             \* thread -> position
    loc,            \* caller -> local variables of its running operation
    todo,           \* monitor: swap ids its iteration has not visited yet
    log,            \* per swap object: the transactions the chains confirmed for it
                    \* and the operations that returned success on it
    ret,            \* the return of a public operation made by the last step, if any
    ncalls,         \* number of public operations invoked so far
    timer           \* monitor: seconds its time.sleep has still to last

vars == <<active_swaps, swap_secrets, heap, lock, height, pc, loc, todo, log, ret, ncalls, timer>>

\* ------------------------------------------------------- local variables
\* a run of the chain calls of one operation: what get_latest_block returned
\* (queried), the transactions sent, in order (sent), how the claim, mint and
\* refund transactions went ("none": not attempted, "unsent": not built or not
\* sent, "failed": no receipt or a receipt with status # 1, "raised",
\* "confirmed") and how the operation ended ("ok", "false": it returned
\* False or None, "raise": an exception reached its except block; before the
\* chain calls "invalid", "notfound", "rejected")
NoRun == [queried |-> <<>>, sent |-> <<>>, claim |-> "none", mint |-> "none",
          refund |-> "none", end |-> "none"]
Ended(e) == [NoRun EXCEPT !.end = e]
NoTx == TxHash("", "none")
NoSecret == [token |-> 0]
NoArgs == [source_chain |-> "", target_chain |-> "", sender |-> "", recipient |-> "",
           amount |-> 0, time_lock_blocks |-> 0, secret |-> NoSecret, hash_lock |-> SHA256(NoSecret)]
IdleLoc == [op |-> "none", swap_id |-> "", swap |-> NullRef, secret |-> NoSecret,
            tx_hash |-> NoTx, run |-> NoRun, args |-> NoArgs]
NoRet == [op |-> "none", swap |-> NullRef, result |-> FALSE, run |-> NoRun]

\* the thread p returns result from operation op
Return(p, op, ref, result, run) ==
    /\ pc' = [pc EXCEPT ![p] = "idle"]
    /\ loc' = [loc EXCEPT ![p] = IdleLoc]
    /\ ret' = [op |-> op, swap |-> ref, result |-> result, run |-> run]

CanCall(p) ==
    /\ pc[p] = "idle"
    /\ ncalls < MaxCalls

Init ==
    /\ active_swaps = [id \in SwapIds |-> NullRef]
    /\ swap_secrets = [id \in SwapIds |-> <<>>]
    /\ heap = <<>>
    /\ lock = Free
    /\ height = [c \in CHAINS |-> 1]
    /\ pc = [t \in Procs \cup {Monitor} |-> "idle"]
    /\ loc = [p \in Procs |-> IdleLoc]
    /\ todo = {}
    /\ log = <<>>
    /\ ret = NoRet
    /\ ncalls = 0
    /\ timer = 0

\* ------------------------------------------------------------ the chains
\* a block is mined on chain c
Tick(c) ==
    /\ height[c] < MaxHeight
    /\ height' = [height EXCEPT ![c] = @ + 1]
    /\ ret' = NoRet
    /\ UNCHANGED <<active_swaps, swap_secrets, heap, lock, pc, loc, todo, log, ncalls, timer>>

\* web3_manager.get_latest_block: the height, or None when the chain cannot be read
GetLatestBlock(c) == {<<>>, <<height[c]>>}

\* results of build_transaction / send_transaction / wait_for_transaction
BuildResults == {"ok", "none", "raise"}
SendResults == {"ok", "none", "raise"}
WaitResults == {"ok", "reverted", "none", "raise"}

\* ------------------------------------------------------------- initiate
\* secrets.token_hex draws a fresh token: the n-th token drawn for a swap
Token(n) == [token |-> n]

\* generate_secret returning the same pair at every call
generate_secret_repeating(n) == {<<Token(1), SHA256(Token(1))>>}

generate_secret(n) == {<<Token(n), SHA256(Token(n))>>}

\* the arguments of initiateCrossChain with the secret in the place of the
\* hash lock
LockTxArgs_with_secret(a) == <<a.secret, a.recipient, a.amount, a.time_lock_blocks>>

\* the arguments of the initiateCrossChain transaction the call builds
LockTxArgs(a) == <<a.hash_lock, a.recipient, a.amount, a.time_lock_blocks>>

\* _validate_swap_params with the upper limit compared by >=
validate_swap_params_below_max(source_chain, target_chain, sender, recipient, amount) ==
    IF source_chain \notin CHAINS \/ target_chain \notin CHAINS THEN FALSE
    ELSE IF amount < min_swap_amount THEN FALSE
    ELSE IF amount >= max_swap_amount THEN FALSE
    ELSE IF sender = "" \/ recipient = "" THEN FALSE
    ELSE TRUE

\* _validate_swap_params
validate_swap_params(source_chain, target_chain, sender, recipient, amount) ==
    IF source_chain \notin CHAINS \/ target_chain \notin CHAINS THEN FALSE
    ELSE IF amount < min_swap_amount THEN FALSE
    ELSE IF amount > max_swap_amount THEN FALSE
    ELSE IF sender = "" \/ recipient = "" THEN FALSE
    ELSE TRUE

\* swap objects created or about to be created
Allocated == Len(heap) + Cardinality({p \in Procs : pc[p] = "i_chain"})

\* a number no stored swap and no running initiate has used yet
Fresh == CHOOSE n \in 1..(MaxSwaps + 1) :
            /\ \A i \in 1..Len(heap) : heap[i].secret # Token(n)
            /\ \A p \in Procs : pc[p] = "i_chain" => loc[p].args.secret # Token(n)

\* _initiate_cross_chain_swap validating after its chain calls instead of
\* before them: every call goes on to the lock transaction
initiate_cross_chain_swap_unvalidated(p, source_chain, target_chain, sender, recipient, amount, time_lock_blocks, secret, hash_lock) ==
    /\ CanCall(p)
    /\ Allocated < MaxSwaps
    /\ ncalls' = ncalls + 1
    /\ IF FALSE
       THEN Return(p, "initiate", NullRef, FALSE, Ended("invalid"))
       ELSE /\ \E pair \in (IF secret = <<>> \/ hash_lock = <<>>
                            THEN generate_secret(Fresh)
                            ELSE {<<secret[1], hash_lock[1]>>}) :
                 loc' = [loc EXCEPT ![p] =
                     [IdleLoc EXCEPT !.op = "initiate",
                         !.args = [NoArgs EXCEPT
                             !.source_chain = source_chain,
                             !.target_chain = target_chain,
                             !.sender = sender,
                             !.recipient = recipient,
                             !.amount = amount,
                             !.secret = pair[1],
                             !.hash_lock = pair[2],
                             !.time_lock_blocks =
                                 IF time_lock_blocks = <<>> THEN default_time_lock_blocks
                                 ELSE time_lock_blocks[1]]]]
            /\ pc' = [pc EXCEPT ![p] = "i_chain"]
            /\ ret' = NoRet
    /\ UNCHANGED <<active_swaps, swap_secrets, heap, lock, height, todo, log, timer>>

\* _initiate_cross_chain_swap up to its first chain call: validation, the
\* secret pair and the default time lock.  secret and hash_lock are
\* Optional: <<>> is None.
initiate_cross_chain_swap(p, source_chain, target_chain, sender, recipient, amount, time_lock_blocks, secret, hash_lock) ==
    /\ CanCall(p)
    /\ Allocated < MaxSwaps
    /\ ncalls' = ncalls + 1
    /\ IF ~validate_swap_params(source_chain, target_chain, sender, recipient, amount)
       THEN Return(p, "initiate", NullRef, FALSE, Ended("invalid"))
       ELSE /\ \E pair \in (IF secret = <<>> \/ hash_lock = <<>>
                            THEN generate_secret(Fresh)
                            ELSE {<<secret[1], hash_lock[1]>>}) :
                 loc' = [loc EXCEPT ![p] =
                     [IdleLoc EXCEPT !.op = "initiate",
                         !.args = [NoArgs EXCEPT
                             !.source_chain = source_chain,
                             !.target_chain = target_chain,
                             !.sender = sender,
                             !.recipient = recipient,
                             !.amount = amount,
                             !.secret = pair[1],
                             !.hash_lock = pair[2],
                             !.time_lock_blocks =
                                 IF time_lock_blocks = <<>> THEN default_time_lock_blocks
                                 ELSE time_lock_blocks[1]]]]
            /\ pc' = [pc EXCEPT ![p] = "i_chain"]
            /\ ret' = NoRet
    /\ UNCHANGED <<active_swaps, swap_secrets, heap, lock, height, todo, log, timer>>

initiate_eth_to_bnb_swap(p) ==
    \E sender \in Senders, recipient \in Recipients, eth_amount \in Amounts,
       time_lock_blocks \in TimeLockInputs, pair \in generate_secret(Fresh) :
        initiate_cross_chain_swap(p, "ethereum", "bsc", sender, recipient, eth_amount,
                                  time_lock_blocks, <<pair[1]>>, <<pair[2]>>)

initiate_bnb_to_eth_swap(p) ==
    \E sender \in Senders, recipient \in Recipients, bnb_amount \in Amounts,
       time_lock_blocks \in TimeLockInputs :
        initiate_cross_chain_swap(p, "bsc", "ethereum", sender, recipient, bnb_amount,
                                  time_lock_blocks, <<>>, <<>>)

\* _extract_swap_id_from_receipt: the id in the CrossChainInitiated event of
\* the receipt, None when the contract is missing or no log decodes
ExtractResults == {<<>>} \cup {<<id>> : id \in SwapIds}

\* the chain calls of _initiate_cross_chain_swap with any receipt taken for
\* a confirmation, whatever its status
InitiateRun_any_receipt(b, s, w, x) ==
    IF b = "raise" THEN [NoRun EXCEPT !.end = "raise"]
    ELSE IF b = "none" THEN [NoRun EXCEPT !.end = "false"]
    ELSE IF s = "raise" THEN [NoRun EXCEPT !.end = "raise"]
    ELSE IF s = "none" THEN [NoRun EXCEPT !.end = "false"]
    ELSE IF w = "raise" THEN [NoRun EXCEPT !.sent = <<"initiateCrossChain">>, !.end = "raise"]
    ELSE IF w = "none" THEN [NoRun EXCEPT !.sent = <<"initiateCrossChain">>, !.end = "false"]
    ELSE IF x = <<>> THEN [NoRun EXCEPT !.sent = <<"initiateCrossChain">>, !.end = "false"]
    ELSE [NoRun EXCEPT !.sent = <<"initiateCrossChain">>, !.end = "ok"]

\* the chain calls of _initiate_cross_chain_swap: build, send, wait, extract
InitiateRun(b, s, w, x) ==
    IF b = "raise" THEN [NoRun EXCEPT !.end = "raise"]
    ELSE IF b = "none" THEN [NoRun EXCEPT !.end = "false"]
    ELSE IF s = "raise" THEN [NoRun EXCEPT !.end = "raise"]
    ELSE IF s = "none" THEN [NoRun EXCEPT !.end = "false"]
    ELSE IF w = "raise" THEN [NoRun EXCEPT !.sent = <<"initiateCrossChain">>, !.end = "raise"]
    ELSE IF w # "ok" THEN [NoRun EXCEPT !.sent = <<"initiateCrossChain">>, !.end = "false"]
    ELSE IF x = <<>> THEN [NoRun EXCEPT !.sent = <<"initiateCrossChain">>, !.end = "false"]
    ELSE [NoRun EXCEPT !.sent = <<"initiateCrossChain">>, !.end = "ok"]

\* every run of the chain calls of an initiate, with the extracted id
InitiateRuns ==
    {<<InitiateRun(o[1], o[2], o[3], o[4]), IF o[4] = <<>> THEN "" ELSE o[4][1]>> :
        o \in BuildResults \X SendResults \X WaitResults \X ExtractResults}

\* the CrossChainSwap built with the two chains exchanged
NewSwap_reversed(a, swap_id, tx_hash) ==
    [swap_id |-> swap_id,
     source_chain |-> a.target_chain,
     target_chain |-> a.source_chain,
     sender |-> a.sender,
     recipient |-> a.recipient,
     amount |-> a.amount,
     hash_lock |-> a.hash_lock,
     secret |-> a.secret,
     time_lock |-> a.time_lock_blocks,
     status |-> INITIATED,
     source_tx_hash |-> <<tx_hash>>,
     target_tx_hash |-> <<>>]

\* the CrossChainSwap built from the arguments and the receipt
NewSwap(a, swap_id, tx_hash) ==
    [swap_id |-> swap_id,
     source_chain |-> a.source_chain,
     target_chain |-> a.target_chain,
     sender |-> a.sender,
     recipient |-> a.recipient,
     amount |-> a.amount,
     hash_lock |-> a.hash_lock,
     secret |-> a.secret,
     time_lock |-> a.time_lock_blocks,
     status |-> INITIATED,
     source_tx_hash |-> <<tx_hash>>,
     target_tx_hash |-> <<>>]

\* the try block of _initiate_cross_chain_swap up to
\* with self._lock: self.active_swaps[swap_id] = swap
InitiateChain(p) ==
    /\ pc[p] = "i_chain"
    /\ \E rx \in InitiateRuns :
        LET run == rx[1]
            swap_id == rx[2]
            swap == NewSwap(loc[p].args, swap_id,
                            TxHash(loc[p].args.secret.token, "initiateCrossChain")) IN
        IF run.end = "ok"
        THEN /\ lock = Free
             /\ lock' = p
             /\ heap' = Append(heap, swap)
             /\ log' = Append(log,
                    [confirmed |-> {}, succeeded |-> {}])
             /\ active_swaps' = [active_swaps EXCEPT ![swap_id] = Len(heap) + 1]
             /\ loc' = [loc EXCEPT ![p].run = run,
                                   ![p].swap_id = swap_id,
                                   ![p].swap = Len(heap) + 1]
             /\ pc' = [pc EXCEPT ![p] = "i_secret"]
             /\ ret' = NoRet
        ELSE /\ Return(p, "initiate", NullRef, FALSE, run)
             /\ UNCHANGED <<active_swaps, heap, lock, log>>
    /\ UNCHANGED <<swap_secrets, height, todo, ncalls, timer>>

\* the end of the with self._lock block of _initiate_cross_chain_swap
\* without the assignment self.swap_secrets[swap_id] = secret
InitiateStoreSecret_without_secret(p) ==
    /\ pc[p] = "i_secret"
    /\ lock = p
    /\ UNCHANGED swap_secrets
    /\ lock' = Free
    /\ Return(p, "initiate", loc[p].swap, TRUE, loc[p].run)
    /\ UNCHANGED <<active_swaps, heap, height, todo, log, ncalls, timer>>

\* self.swap_secrets[swap_id] = secret; the lock is released; return swap
InitiateStoreSecret(p) ==
    /\ pc[p] = "i_secret"
    /\ lock = p
    /\ swap_secrets' = [swap_secrets EXCEPT ![loc[p].swap_id] = <<loc[p].args.secret>>]
    /\ lock' = Free
    /\ Return(p, "initiate", loc[p].swap, TRUE, loc[p].run)
    /\ UNCHANGED <<active_swaps, heap, height, todo, log, ncalls, timer>>

\* ------------------------------------------------------------- complete
\* Step 2 of complete_cross_chain_swap sending mintForCrossChain a second
\* time when the first is not confirmed
CompleteStep2_retrying(sent, claim, b2, s2, w2) ==
    LET r == [NoRun EXCEPT !.sent = sent, !.claim = claim] IN
    IF b2 = "raise" THEN [r EXCEPT !.mint = "raised", !.end = "raise"]
    ELSE IF b2 = "none" THEN [r EXCEPT !.mint = "unsent", !.end = "false"]
    ELSE IF s2 = "raise" THEN [r EXCEPT !.mint = "raised", !.end = "raise"]
    ELSE IF s2 = "none" THEN [r EXCEPT !.mint = "unsent", !.end = "false"]
    ELSE LET r2 == [r EXCEPT !.sent = Append(sent, "mintForCrossChain")] IN
         IF w2 = "raise" THEN [r2 EXCEPT !.mint = "raised", !.end = "raise"]
         ELSE IF w2 # "ok"
              THEN [r2 EXCEPT !.sent = Append(@, "mintForCrossChain"),
                              !.mint = "failed", !.end = "false"]
         ELSE [r2 EXCEPT !.mint = "confirmed", !.end = "ok"]

\* Step 2 of complete_cross_chain_swap: build, send and wait for
\* mintForCrossChain on the target chain
CompleteStep2(sent, claim, b2, s2, w2) ==
    LET r == [NoRun EXCEPT !.sent = sent, !.claim = claim] IN
    IF b2 = "raise" THEN [r EXCEPT !.mint = "raised", !.end = "raise"]
    ELSE IF b2 = "none" THEN [r EXCEPT !.mint = "unsent", !.end = "false"]
    ELSE IF s2 = "raise" THEN [r EXCEPT !.mint = "raised", !.end = "raise"]
    ELSE IF s2 = "none" THEN [r EXCEPT !.mint = "unsent", !.end = "false"]
    ELSE LET r2 == [r EXCEPT !.sent = Append(sent, "mintForCrossChain")] IN
         IF w2 = "raise" THEN [r2 EXCEPT !.mint = "raised", !.end = "raise"]
         ELSE IF w2 # "ok" THEN [r2 EXCEPT !.mint = "failed", !.end = "false"]
         ELSE [r2 EXCEPT !.mint = "confirmed", !.end = "ok"]

\* Step 1 of complete_cross_chain_swap: build, send and wait for
\* completeCrossChain on the source chain, then step 2
CompleteRun(b1, s1, w1, b2, s2, w2) ==
    IF b1 = "raise" THEN [NoRun EXCEPT !.claim = "raised", !.end = "raise"]
    ELSE IF b1 = "none" THEN CompleteStep2(<<>>, "unsent", b2, s2, w2)
    ELSE IF s1 = "raise" THEN [NoRun EXCEPT !.claim = "raised", !.end = "raise"]
    ELSE IF s1 = "none" THEN CompleteStep2(<<>>, "unsent", b2, s2, w2)
    ELSE IF w1 = "raise"
         THEN [NoRun EXCEPT !.sent = <<"completeCrossChain">>, !.claim = "raised", !.end = "raise"]
    ELSE IF w1 = "ok" THEN CompleteStep2(<<"completeCrossChain">>, "confirmed", b2, s2, w2)
    ELSE [NoRun EXCEPT !.sent = <<"completeCrossChain">>, !.claim = "failed", !.end = "false"]

\* every run of the chain calls of a complete
CompleteRuns ==
    {CompleteRun(o[1], o[2], o[3], o[4], o[5], o[6]) :
        o \in BuildResults \X SendResults \X WaitResults \X
              BuildResults \X SendResults \X WaitResults}

\* the first with self._lock block of complete_cross_chain_swap as below,
\* returning False for a swap that is not Initiated without releasing the
\* lock
CompleteCheck_keeping_lock(p, swap_id) ==
    /\ CanCall(p)
    /\ lock = Free
    /\ ncalls' = ncalls + 1
    /\ LET swap == active_swaps[swap_id] IN
       IF swap = NullRef
       THEN Return(p, "complete", NullRef, FALSE, Ended("notfound")) /\ UNCHANGED lock
       ELSE IF heap[swap].status # INITIATED
       THEN Return(p, "complete", swap, FALSE, Ended("rejected")) /\ lock' = p
       ELSE IF swap_secrets[swap_id] = <<>>
       THEN Return(p, "complete", swap, FALSE, Ended("rejected")) /\ UNCHANGED lock
       ELSE /\ UNCHANGED lock
            /\ loc' = [loc EXCEPT ![p] = [IdleLoc EXCEPT !.op = "complete",
                                                         !.swap_id = swap_id,
                                                         !.swap = swap,
                                                         !.secret = swap_secrets[swap_id][1]]]
            /\ pc' = [pc EXCEPT ![p] = "c_chain"]
            /\ ret' = NoRet
    /\ UNCHANGED <<active_swaps, swap_secrets, heap, height, todo, log, timer>>

\* the first with self._lock block of complete_cross_chain_swap
CompleteCheck(p, swap_id) ==
    /\ CanCall(p)
    /\ lock = Free
    /\ ncalls' = ncalls + 1
    /\ LET swap == active_swaps[swap_id] IN
       IF swap = NullRef
       THEN Return(p, "complete", NullRef, FALSE, Ended("notfound"))
       ELSE IF heap[swap].status # INITIATED
       THEN Return(p, "complete", swap, FALSE, Ended("rejected"))
       ELSE IF swap_secrets[swap_id] = <<>>
       THEN Return(p, "complete", swap, FALSE, Ended("rejected"))
       ELSE /\ loc' = [loc EXCEPT ![p] = [IdleLoc EXCEPT !.op = "complete",
                                                         !.swap_id = swap_id,
                                                         !.swap = swap,
                                                         !.secret = swap_secrets[swap_id][1]]]
            /\ pc' = [pc EXCEPT ![p] = "c_chain"]
            /\ ret' = NoRet
    /\ UNCHANGED <<active_swaps, swap_secrets, heap, lock, height, todo, log, timer>>

\* the chains confirmed the transactions fns for swap object ref
Confirm(ref, fns) ==
    [log EXCEPT ![ref].confirmed = @ \cup fns]

\* the operation op of thread p returned success on swap object ref after run
Succeed(l, ref, p, op, run) ==
    [l EXCEPT ![ref].succeeded = @ \cup {[op |-> op, by |-> p, claim |-> run.claim]}]

\* the try block of complete_cross_chain_swap up to
\* with self._lock: swap.status = SwapStatus.COMPLETED, and its except block
\* with self._lock: swap.status = SwapStatus.FAILED; return False
CompleteChain(p) ==
    /\ pc[p] = "c_chain"
    /\ \E run \in CompleteRuns :
        /\ log' = Confirm(loc[p].swap,
               (IF run.claim = "confirmed" THEN {"completeCrossChain"} ELSE {}) \cup
               (IF run.mint = "confirmed" THEN {"mintForCrossChain"} ELSE {}))
        /\ CASE run.end = "false" ->
                /\ Return(p, "complete", loc[p].swap, FALSE, run)
                /\ UNCHANGED <<heap, lock>>
             [] run.end = "raise" ->
                /\ lock = Free
                /\ heap' = [heap EXCEPT ![loc[p].swap].status = FAILED]
                /\ Return(p, "complete", loc[p].swap, FALSE, run)
                /\ UNCHANGED lock
             [] run.end = "ok" ->
                /\ lock = Free
                /\ lock' = p
                /\ heap' = [heap EXCEPT ![loc[p].swap].status = COMPLETED]
                /\ loc' = [loc EXCEPT ![p].run = run,
                                      ![p].tx_hash = TxHash(p, "mintForCrossChain")]
                /\ pc' = [pc EXCEPT ![p] = "c_txhash"]
                /\ ret' = NoRet
    /\ UNCHANGED <<active_swaps, swap_secrets, height, todo, ncalls, timer>>

\* swap.target_tx_hash = target_tx_hash as below, with the completed swap
\* taken out of active_swaps
CompleteSetTxHash_removing(p) ==
    /\ pc[p] = "c_txhash"
    /\ lock = p
    /\ heap' = [heap EXCEPT ![loc[p].swap].target_tx_hash = <<loc[p].tx_hash>>]
    /\ active_swaps' = [active_swaps EXCEPT ![loc[p].swap_id] = NullRef]
    /\ lock' = Free
    /\ log' = Succeed(log, loc[p].swap, p, "complete", loc[p].run)
    /\ Return(p, "complete", loc[p].swap, TRUE, loc[p].run)
    /\ UNCHANGED <<swap_secrets, height, todo, ncalls, timer>>

\* swap.target_tx_hash = target_tx_hash; the lock is released; return True
CompleteSetTxHash(p) ==
    /\ pc[p] = "c_txhash"
    /\ lock = p
    /\ heap' = [heap EXCEPT ![loc[p].swap].target_tx_hash = <<loc[p].tx_hash>>]
    /\ lock' = Free
    /\ log' = Succeed(log, loc[p].swap, p, "complete", loc[p].run)
    /\ Return(p, "complete", loc[p].swap, TRUE, loc[p].run)
    /\ UNCHANGED <<active_swaps, swap_secrets, height, todo, ncalls, timer>>

\* --------------------------------------------------------------- refund
\* _is_swap_expired with the comparison current_block >= swap.time_lock
is_swap_expired_at_lock(current_block, swap) ==
    IF current_block = <<>> \/ current_block[1] = 0 THEN FALSE
    ELSE current_block[1] >= swap.time_lock

\* _is_swap_expired, given what get_latest_block returned
is_swap_expired(current_block, swap) ==
    IF current_block = <<>> \/ current_block[1] = 0 THEN FALSE
    ELSE current_block[1] > swap.time_lock

\* the try block of refund_cross_chain_swap with any receipt taken for a
\* confirmation, whatever its status
RefundRun_any_receipt(expired, q, b, s, w) ==
    LET r == [NoRun EXCEPT !.queried = q] IN
    IF ~expired THEN [r EXCEPT !.end = "false"]
    ELSE IF b = "raise" THEN [r EXCEPT !.refund = "raised", !.end = "raise"]
    ELSE IF b = "none" THEN [r EXCEPT !.refund = "unsent", !.end = "false"]
    ELSE IF s = "raise" THEN [r EXCEPT !.refund = "raised", !.end = "raise"]
    ELSE IF s = "none" THEN [r EXCEPT !.refund = "unsent", !.end = "false"]
    ELSE LET r2 == [r EXCEPT !.sent = <<"refundCrossChain">>] IN
         IF w = "raise" THEN [r2 EXCEPT !.refund = "raised", !.end = "raise"]
         ELSE IF w = "none" THEN [r2 EXCEPT !.refund = "failed", !.end = "false"]
         ELSE [r2 EXCEPT !.refund = "confirmed", !.end = "ok"]

\* the try block of refund_cross_chain_swap up to the status update
RefundRun(expired, q, b, s, w) ==
    LET r == [NoRun EXCEPT !.queried = q] IN
    IF ~expired THEN [r EXCEPT !.end = "false"]
    ELSE IF b = "raise" THEN [r EXCEPT !.refund = "raised", !.end = "raise"]
    ELSE IF b = "none" THEN [r EXCEPT !.refund = "unsent", !.end = "false"]
    ELSE IF s = "raise" THEN [r EXCEPT !.refund = "raised", !.end = "raise"]
    ELSE IF s = "none" THEN [r EXCEPT !.refund = "unsent", !.end = "false"]
    ELSE LET r2 == [r EXCEPT !.sent = <<"refundCrossChain">>] IN
         IF w = "raise" THEN [r2 EXCEPT !.refund = "raised", !.end = "raise"]
         ELSE IF w # "ok" THEN [r2 EXCEPT !.refund = "failed", !.end = "false"]
         ELSE [r2 EXCEPT !.refund = "confirmed", !.end = "ok"]

\* every run of the chain calls of a refund of swap
RefundRuns(swap) ==
    {RefundRun(is_swap_expired(o[1], swap), o[1], o[2], o[3], o[4]) :
        o \in GetLatestBlock(swap.source_chain) \X BuildResults \X SendResults \X WaitResults}

\* the with self._lock block of refund_cross_chain_swap without its test of
\* the status
RefundCheck_any_status(p, swap_id) ==
    /\ CanCall(p)
    /\ lock = Free
    /\ ncalls' = ncalls + 1
    /\ LET swap == active_swaps[swap_id] IN
       IF swap = NullRef
       THEN Return(p, "refund", NullRef, FALSE, Ended("notfound"))
       ELSE /\ loc' = [loc EXCEPT ![p] = [IdleLoc EXCEPT !.op = "refund",
                                                         !.swap_id = swap_id,
                                                         !.swap = swap]]
            /\ pc' = [pc EXCEPT ![p] = "r_chain"]
            /\ ret' = NoRet
    /\ UNCHANGED <<active_swaps, swap_secrets, heap, lock, height, todo, log, timer>>

\* the with self._lock block of refund_cross_chain_swap
RefundCheck(p, swap_id) ==
    /\ CanCall(p)
    /\ lock = Free
    /\ ncalls' = ncalls + 1
    /\ LET swap == active_swaps[swap_id] IN
       IF swap = NullRef
       THEN Return(p, "refund", NullRef, FALSE, Ended("notfound"))
       ELSE IF heap[swap].status # INITIATED
       THEN Return(p, "refund", swap, FALSE, Ended("rejected"))
       ELSE /\ loc' = [loc EXCEPT ![p] = [IdleLoc EXCEPT !.op = "refund",
                                                         !.swap_id = swap_id,
                                                         !.swap = swap]]
            /\ pc' = [pc EXCEPT ![p] = "r_chain"]
            /\ ret' = NoRet
    /\ UNCHANGED <<active_swaps, swap_secrets, heap, lock, height, todo, log, timer>>

\* the try block of refund_cross_chain_swap as below, with the secret of the
\* refunded swap deleted from swap_secrets
RefundChain_deleting_secret(p) ==
    /\ pc[p] = "r_chain"
    /\ \E run \in RefundRuns(heap[loc[p].swap]) :
        IF run.end = "ok"
        THEN /\ lock = Free
             /\ log' = Succeed(Confirm(loc[p].swap, {"refundCrossChain"}),
                                loc[p].swap, p, "refund", run)
             /\ heap' = [heap EXCEPT ![loc[p].swap].status = REFUNDED]
             /\ swap_secrets' = [swap_secrets EXCEPT ![loc[p].swap_id] = <<>>]
             /\ Return(p, "refund", loc[p].swap, TRUE, run)
        ELSE /\ Return(p, "refund", loc[p].swap, FALSE, run)
             /\ UNCHANGED <<heap, log, swap_secrets>>
    /\ UNCHANGED <<active_swaps, lock, height, todo, ncalls, timer>>

\* the try block of refund_cross_chain_swap, to its return
RefundChain(p) ==
    /\ pc[p] = "r_chain"
    /\ \E run \in RefundRuns(heap[loc[p].swap]) :
        IF run.end = "ok"
        THEN /\ lock = Free
             /\ log' = Succeed(Confirm(loc[p].swap, {"refundCrossChain"}),
                                loc[p].swap, p, "refund", run)
             /\ heap' = [heap EXCEPT ![loc[p].swap].status = REFUNDED]
             /\ Return(p, "refund", loc[p].swap, TRUE, run)
        ELSE /\ Return(p, "refund", loc[p].swap, FALSE, run)
             /\ UNCHANGED <<heap, log>>
    /\ UNCHANGED <<active_swaps, swap_secrets, lock, height, todo, ncalls, timer>>

\* -------------------------------------------------------------- respond
\* the chain calls of manager_respond_to_swap: build, send and wait for
\* managerRespondToCrossChain on the target chain
RespondRun(b, s, w) ==
    IF b = "raise" THEN [NoRun EXCEPT !.end = "raise"]
    ELSE IF b = "none" THEN [NoRun EXCEPT !.end = "false"]
    ELSE IF s = "raise" THEN [NoRun EXCEPT !.end = "raise"]
    ELSE IF s = "none" THEN [NoRun EXCEPT !.end = "false"]
    ELSE LET r == [NoRun EXCEPT !.sent = <<"managerRespondToCrossChain">>] IN
         IF w = "raise" THEN [r EXCEPT !.end = "raise"]
         ELSE IF w # "ok" THEN [r EXCEPT !.end = "false"]
         ELSE [r EXCEPT !.end = "ok"]

\* every run of the chain calls of a respond
RespondRuns ==
    {RespondRun(o[1], o[2], o[3]) : o \in BuildResults \X SendResults \X WaitResults}

\* manager_respond_to_swap keeping a record of the lock it made
manager_respond_to_swap_recording(p) ==
    /\ CanCall(p)
    /\ ncalls' = ncalls + 1
    /\ \E run \in RespondRuns, swap_id \in SwapIds :
          /\ Return(p, "respond", NullRef, run.end = "ok", run)
          /\ swap_secrets' = IF run.end = "ok"
                             THEN [swap_secrets EXCEPT ![swap_id] = <<NoSecret>>]
                             ELSE swap_secrets
    /\ UNCHANGED <<active_swaps, heap, lock, height, todo, log, timer>>

\* manager_respond_to_swap, from call to return: it reads and writes none of
\* active_swaps, swap_secrets, the swap objects and _lock, so that its
\* arguments (hash_lock, recipient, amount, target_chain, time_lock_blocks)
\* reach the chain only
manager_respond_to_swap(p) ==
    /\ CanCall(p)
    /\ ncalls' = ncalls + 1
    /\ \E run \in RespondRuns : Return(p, "respond", NullRef, run.end = "ok", run)
    /\ UNCHANGED <<active_swaps, swap_secrets, heap, lock, height, todo, log, timer>>

\* ----------------------------------------------------------- get status
\* get_swap_status, from call to return: with self._lock it looks swap_id up
\* in active_swaps and returns the CrossChainSwap object stored there, or
\* None
get_swap_status(p, swap_id) ==
    /\ CanCall(p)
    /\ lock = Free
    /\ ncalls' = ncalls + 1
    /\ Return(p, "status", active_swaps[swap_id], active_swaps[swap_id] # NullRef,
              Ended(IF active_swaps[swap_id] # NullRef THEN "ok" ELSE "notfound"))
    /\ UNCHANGED <<active_swaps, swap_secrets, heap, lock, height, todo, log, timer>>

\* -------------------------------------------------------------- monitor
\* monitor_active_swaps iterating over the first entry of active_swaps only
MonitorEnter_first_entry ==
    /\ pc[Monitor] = "idle"
    /\ lock = Free
    /\ lock' = Monitor
    /\ todo' = {id \in SwapIds : active_swaps[id] # NullRef /\ (id = "0xa" \/ active_swaps["0xa"] = NullRef)}
    /\ pc' = [pc EXCEPT ![Monitor] = "m_sweep"]
    /\ ret' = NoRet
    /\ UNCHANGED <<active_swaps, swap_secrets, heap, height, loc, log, ncalls, timer>>

\* monitor_active_swaps takes the lock and starts iterating active_swaps
MonitorEnter ==
    /\ pc[Monitor] = "idle"
    /\ lock = Free
    /\ lock' = Monitor
    /\ todo' = {id \in SwapIds : active_swaps[id] # NullRef}
    /\ pc' = [pc EXCEPT ![Monitor] = "m_sweep"]
    /\ ret' = NoRet
    /\ UNCHANGED <<active_swaps, swap_secrets, heap, height, loc, log, ncalls, timer>>

\* one iteration of the for loop of monitor_active_swaps without its test
\* of the status
MonitorVisit_any_status(swap_id) ==
    /\ pc[Monitor] = "m_sweep"
    /\ swap_id \in todo
    /\ todo' = todo \ {swap_id}
    /\ LET swap == active_swaps[swap_id] IN
       \E q \in GetLatestBlock(heap[swap].source_chain) :
           IF is_swap_expired(q, heap[swap])
           THEN heap' = [heap EXCEPT ![swap].status = EXPIRED]
           ELSE UNCHANGED heap
    /\ ret' = NoRet
    /\ UNCHANGED <<active_swaps, swap_secrets, lock, height, pc, loc, log, ncalls, timer>>

\* one iteration of the for loop of monitor_active_swaps
MonitorVisit(swap_id) ==
    /\ pc[Monitor] = "m_sweep"
    /\ swap_id \in todo
    /\ todo' = todo \ {swap_id}
    /\ LET swap == active_swaps[swap_id] IN
       IF heap[swap].status = INITIATED
       THEN \E q \in GetLatestBlock(heap[swap].source_chain) :
               IF is_swap_expired(q, heap[swap])
               THEN heap' = [heap EXCEPT ![swap].status = EXPIRED]
               ELSE UNCHANGED heap
       ELSE UNCHANGED heap
    /\ ret' = NoRet
    /\ UNCHANGED <<active_swaps, swap_secrets, lock, height, pc, loc, log, ncalls, timer>>

\* an exception raised inside monitor_active_swaps that leaves the while
\* loop of monitor_swaps, as it would without the try statement
MonitorRaise_ending_loop ==
    /\ pc[Monitor] = "m_sweep"
    /\ \E swap_id \in todo : heap[active_swaps[swap_id]].status = INITIATED
    /\ todo' = {}
    /\ lock' = Free
    /\ pc' = [pc EXCEPT ![Monitor] = "m_stopped"]
    /\ ret' = NoRet
    /\ UNCHANGED <<active_swaps, swap_secrets, heap, height, loc, log, ncalls, timer>>

\* an exception is raised inside monitor_active_swaps, by _is_swap_expired
\* on an Initiated swap: the with statement releases the lock, the except
\* block of monitor_swaps logs the error and calls time.sleep(60)
MonitorRaise ==
    /\ pc[Monitor] = "m_sweep"
    /\ \E swap_id \in todo : heap[active_swaps[swap_id]].status = INITIATED
    /\ todo' = {}
    /\ lock' = Free
    /\ pc' = [pc EXCEPT ![Monitor] = "m_sleep"]
    /\ timer' = sleep_after_error
    /\ ret' = NoRet
    /\ UNCHANGED <<active_swaps, swap_secrets, heap, height, loc, log, ncalls>>

\* the end of a sweep with time.sleep(30) in both branches of monitor_swaps
MonitorExit_same_sleep ==
    /\ pc[Monitor] = "m_sweep"
    /\ todo = {}
    /\ lock' = Free
    /\ pc' = [pc EXCEPT ![Monitor] = "m_sleep"]
    /\ timer' = sleep_after_error
    /\ ret' = NoRet
    /\ UNCHANGED <<active_swaps, swap_secrets, heap, height, loc, todo, log, ncalls>>

\* the for loop ends, the lock is released, monitor_active_swaps returns and
\* monitor_swaps calls time.sleep(30)
MonitorExit ==
    /\ pc[Monitor] = "m_sweep"
    /\ todo = {}
    /\ lock' = Free
    /\ pc' = [pc EXCEPT ![Monitor] = "m_sleep"]
    /\ timer' = sleep_after_sweep
    /\ ret' = NoRet
    /\ UNCHANGED <<active_swaps, swap_secrets, heap, height, loc, todo, log, ncalls>>

\* time.sleep: TimeStep seconds pass; when none is left the call returns and
\* the while loop of monitor_swaps starts its next iteration
MonitorSleep ==
    /\ pc[Monitor] = "m_sleep"
    /\ timer' = timer - TimeStep
    /\ pc' = [pc EXCEPT ![Monitor] = IF timer' = 0 THEN "idle" ELSE "m_sleep"]
    /\ ret' = NoRet
    /\ UNCHANGED <<active_swaps, swap_secrets, heap, lock, height, loc, todo, log, ncalls>>

\* ---------------------------------------------------------- specification
Next ==
    \/ \E c \in CHAINS : Tick(c)
    \/ \E p \in Procs : initiate_eth_to_bnb_swap(p)
    \/ \E p \in Procs : initiate_bnb_to_eth_swap(p)
    \/ \E p \in Procs : InitiateChain(p)
    \/ \E p \in Procs : InitiateStoreSecret(p)
    \/ \E p \in Procs, swap_id \in SwapIds : CompleteCheck(p, swap_id)
    \/ \E p \in Procs : CompleteChain(p)
    \/ \E p \in Procs : CompleteSetTxHash(p)
    \/ \E p \in Procs, swap_id \in SwapIds : RefundCheck(p, swap_id)
    \/ \E p \in Procs : RefundChain(p)
    \/ \E p \in Procs : manager_respond_to_swap(p)
    \/ \E p \in Procs, swap_id \in SwapIds : get_swap_status(p, swap_id)
    \/ MonitorEnter
    \/ \E swap_id \in SwapIds : MonitorVisit(swap_id)
    \/ MonitorRaise
    \/ MonitorExit
    \/ MonitorSleep

Spec == Init /\ [][Next]_vars

TypeOK ==
    /\ lock \in Procs \cup {Monitor, Free}
    /\ Len(heap) <= MaxSwaps
    /\ Len(log) = Len(heap)
    /\ \A id \in SwapIds : active_swaps[id] \in 0..Len(heap)
    /\ timer \in {0, sleep_after_sweep, sleep_after_error}
    /\ timer > 0 <=> pc[Monitor] = "m_sleep"

\* ================================================================ claims
Refs == 1..Len(heap)
Contains(seq, x) == \E i \in 1..Len(seq) : seq[i] = x

\* the runs of chain calls of complete that the state shows: the one just
\* returned and those of the threads between their two final writes
CompleteRunsSeen ==
    (IF ret.op = "complete" THEN {ret.run} ELSE {}) \cup
    {loc[p].run : p \in {t \in Procs : pc[t] = "c_txhash"}}

\* C1: a complete and a refund that race on the same Initiated swap, every
\* chain call of both confirming successfully, never both return success.
C1_CompleteAndRefundNeverBothSucceed ==
    \A ref \in Refs :
        ~ \E c \in log[ref].succeeded, r \in log[ref].succeeded :
            /\ c.op = "complete"
            /\ c.claim = "confirmed"
            /\ r.op = "refund"

\* C2: for one swap at most one complete call and at most one refund call
\* ever returns success.
C2_NoTransitionSucceedsTwice ==
    \A ref \in Refs : \A op \in {"complete", "refund"} :
        Cardinality({e \in log[ref].succeeded : e.op = op}) <= 1

\* the state machine of section 4.3
AllowedTransition(from, to) ==
    \/ from = INITIATED /\ to \in {COMPLETED, REFUNDED, EXPIRED, FAILED}
    \/ from = EXPIRED /\ to \in {REFUNDED, COMPLETED}

\* C3: every change of the status of a swap record follows the state
\* machine, so Completed, Refunded and Failed never change again.
C3_StatusFollowsStateMachine ==
    [][\A ref \in Refs :
          heap'[ref].status # heap[ref].status
              => AllowedTransition(heap[ref].status, heap'[ref].status)]_vars

\* C4: a swap is Completed only if its claim and its release were both
\* confirmed, and Refunded only if its refund was confirmed.
C4_TerminalStatusIsConfirmedOnChain ==
    \A ref \in Refs :
        /\ heap[ref].status = COMPLETED
              => {"completeCrossChain", "mintForCrossChain"} \subseteq log[ref].confirmed
        /\ heap[ref].status = REFUNDED
              => "refundCrossChain" \in log[ref].confirmed

\* C5: a complete call sends the release only after its claim was confirmed,
\* and a complete call that succeeds has sent exactly the claim, then the
\* release.
C5_ReleaseOnlyAfterConfirmedClaim ==
    \A run \in CompleteRunsSeen :
        /\ Contains(run.sent, "mintForCrossChain") => run.claim = "confirmed"
        /\ run.end = "ok" => run.sent = <<"completeCrossChain", "mintForCrossChain">>

\* C6: when the claim of a complete call was confirmed and its release was
\* not built, not sent, timed out or reverted, the call returns failure and
\* has set the status to Failed.
C6_FailedReleaseMarksSwapFailed ==
    (/\ ret.op = "complete"
     /\ ret.run.claim = "confirmed"
     /\ ret.run.mint \in {"unsent", "failed"})
        => /\ ret.result = FALSE
           /\ heap[ret.swap].status = FAILED

\* the run of the complete call of thread p that the next state shows
NextCompleteRun(p) == IF pc'[p] = "c_txhash" THEN loc'[p].run ELSE ret'.run

\* C7: when step 1 of a complete call fails (the claim is not built, not
\* sent, not confirmed, or an error is raised) the call returns failure,
\* leaves the status of the swap as it was and sends nothing to the target
\* chain.
C7_FailedClaimChangesNothing ==
    [][\A p \in Procs :
          (/\ pc[p] = "c_chain"
           /\ pc'[p] # "c_chain"
           /\ NextCompleteRun(p).claim \in {"unsent", "failed", "raised"})
              => /\ pc'[p] = "idle"
                 /\ ret'.result = FALSE
                 /\ heap'[loc[p].swap].status = heap[loc[p].swap].status
                 /\ ~Contains(NextCompleteRun(p).sent, "mintForCrossChain")]_vars

\* C8: the time_lock of a swap created at source height h with
\* time_lock_blocks n is h + n, so that at no height up to h + n the swap
\* counts as expired.
C8_TimeLockIsInitiationHeightPlusBlocks ==
    [][\A p \in Procs :
          (pc[p] = "i_chain" /\ pc'[p] = "i_secret")
              => LET swap == heap'[loc'[p].swap]
                     h == height[swap.source_chain]
                     n == loc[p].args.time_lock_blocks
                 IN /\ swap.time_lock = h + n
                    /\ \A current \in Heights :
                          is_swap_expired(<<current>>, swap) => current > h + n]_vars

\* C9: a refund call attempts its refund transaction only after it read a
\* source height strictly greater than the time_lock of the swap; with the
\* height equal to time_lock, or not obtained, it fails and changes no
\* swap; with the height time_lock + 1 it goes on to the transaction and,
\* when that is confirmed, returns success with the status Refunded.
C9_RefundOnlyPastTimeLock ==
    [][\A p \in Procs :
          (pc[p] = "r_chain" /\ pc'[p] = "idle")
              => LET swap == heap[loc[p].swap]
                     run == ret'.run
                     q == run.queried
                 IN /\ run.refund # "none" => (q # <<>> /\ q[1] > swap.time_lock)
                    /\ run.sent # <<>> => run.refund # "none"
                    /\ q = <<swap.time_lock>>
                          => (~ret'.result /\ run.refund = "none" /\ heap' = heap)
                    /\ q = <<>>
                          => (~ret'.result /\ run.refund = "none" /\ heap' = heap)
                    /\ q = <<swap.time_lock + 1>>
                          => /\ run.refund # "none"
                             /\ run.refund = "confirmed"
                                   => (ret'.result /\ heap'[loc[p].swap].status = REFUNDED)]_vars

\* a refund that read the height time_lock + 1 has just returned success
C9_Witness ==
    /\ ret.op = "refund"
    /\ ret.result = TRUE
    /\ ret.run.queried = <<heap[ret.swap].time_lock + 1>>
    /\ heap[ret.swap].status = REFUNDED

\* C10: a refund called on a swap the sweep has marked Expired, its source
\* height past time_lock, is not turned away for its status: it goes on to
\* the refund transaction and to Refunded.
C10_ExpiredSwapCanBeRefunded ==
    ~ (/\ ret.op = "refund"
       /\ ret.run.end = "rejected"
       /\ heap[ret.swap].status = EXPIRED
       /\ height[heap[ret.swap].source_chain] > heap[ret.swap].time_lock)

\* ------------------------------------------------ initiate, all arguments
\* _initiate_cross_chain_swap called with chain names and amounts on both
\* sides of every limit of _validate_swap_params
ChainPairInputs == {<<"ethereum", "bsc">>, <<"bsc", "ethereum">>,
                    <<"polygon", "bsc">>, <<"ethereum", "polygon">>}
AmountInputs == {min_swap_amount - 1, min_swap_amount, max_swap_amount, max_swap_amount + 1}

InitiateAny(p) ==
    \E chains \in ChainPairInputs,
       sender \in Senders, recipient \in Recipients, amount \in AmountInputs,
       time_lock_blocks \in TimeLockInputs :
        initiate_cross_chain_swap(p, chains[1], chains[2], sender, recipient,
                                  amount, time_lock_blocks, <<>>, <<>>)

NextInitiate ==
    \/ \E p \in Procs : InitiateAny(p)
    \/ \E p \in Procs : InitiateChain(p)
    \/ \E p \in Procs : InitiateStoreSecret(p)

SpecInitiate == Init /\ [][NextInitiate]_vars

\* the store: the two dictionaries and the swap objects
store == <<active_swaps, swap_secrets, heap>>

\* the arguments initiate has to turn away
InvalidParams(source_chain, target_chain, sender, recipient, amount) ==
    \/ source_chain \notin CHAINS
    \/ target_chain \notin CHAINS
    \/ amount < min_swap_amount
    \/ amount > max_swap_amount
    \/ sender = ""
    \/ recipient = ""

\* C11: an initiate with an unsupported source or target chain, an amount
\* below the minimum or above the maximum, or an empty sender or recipient
\* returns failure at once, with no call of a chain and no change of the
\* store; every other initiate, the amounts equal to the minimum and to the
\* maximum included, is accepted and goes on to its chain calls.
C11_InvalidInitiateTouchesNothing ==
    [][\A p \in Procs, chains \in ChainPairInputs,
          sender \in Senders, recipient \in Recipients, amount \in AmountInputs,
          time_lock_blocks \in TimeLockInputs :
          initiate_cross_chain_swap(p, chains[1], chains[2], sender, recipient,
                                    amount, time_lock_blocks, <<>>, <<>>)
              => IF InvalidParams(chains[1], chains[2], sender, recipient, amount)
                 THEN /\ pc'[p] = "idle"
                      /\ ret'.op = "initiate"
                      /\ ret'.result = FALSE
                      /\ ret'.run.sent = <<>>
                      /\ ret'.run.queried = <<>>
                      /\ UNCHANGED store
                 ELSE /\ pc'[p] = "i_chain"
                      /\ loc'[p].args.amount = amount]_vars

\* an initiate was turned away after one with the maximum amount was stored
C11_Witness ==
    /\ ret.op = "initiate"
    /\ ret.run.end = "invalid"
    /\ \E ref \in Refs : heap[ref].amount = max_swap_amount

\* the outcomes of the chain calls of an initiate in which the lock
\* transaction is not built, not sent, not confirmed (no receipt, a receipt
\* with a status other than 1, an error raised) or carries no swap id
FailedInitiateOutcomes ==
    {o \in BuildResults \X SendResults \X WaitResults \X ExtractResults :
        o[1] # "ok" \/ o[2] # "ok" \/ o[3] # "ok" \/ o[4] = <<>>}

\* C12: an initiate whose lock transaction is not built, not sent, not
\* confirmed with a successful receipt, or whose receipt yields no swap id,
\* or in which an error is raised, returns failure and leaves
\* active_swaps, swap_secrets and the swap objects exactly as they were.
C12_FailedInitiateLeavesNoRecord ==
    [][\A p \in Procs :
          (pc[p] = "i_chain" /\ pc'[p] # "i_chain")
              => /\ \A o \in FailedInitiateOutcomes :
                       InitiateRun(o[1], o[2], o[3], o[4]).end # "ok"
                 /\ pc'[p] = "i_secret" => loc'[p].run.end = "ok"
                 /\ pc'[p] = "idle"
                       => /\ ret'.op = "initiate"
                          /\ ret'.run.end # "ok"
                          /\ ret'.result = FALSE
                          /\ ret'.swap = NullRef
                          /\ UNCHANGED store]_vars

\* an initiate has failed after its lock transaction was sent, next to a
\* swap stored earlier
C12_Witness ==
    /\ ret.op = "initiate"
    /\ ret.result = FALSE
    /\ ret.run.sent = <<"initiateCrossChain">>
    /\ \E id \in SwapIds : active_swaps[id] # NullRef

\* C13: an initiate_eth_to_bnb_swap runs from ethereum to bsc and an
\* initiate_bnb_to_eth_swap from bsc to ethereum; an initiate whose lock
\* transaction is confirmed with a receipt that carries a swap id stores
\* exactly one new swap, under that id, with the status Initiated, the
\* sender, recipient, amount and direction of the call, the hash of the lock
\* transaction as source_tx_hash and no target_tx_hash, and returns it.
C13_SuccessfulInitiateStoresTheSwap ==
    [][\A p \in Procs :
          /\ (initiate_eth_to_bnb_swap(p) /\ pc'[p] = "i_chain")
                => /\ loc'[p].args.source_chain = "ethereum"
                   /\ loc'[p].args.target_chain = "bsc"
          /\ (initiate_bnb_to_eth_swap(p) /\ pc'[p] = "i_chain")
                => /\ loc'[p].args.source_chain = "bsc"
                   /\ loc'[p].args.target_chain = "ethereum"
          /\ (pc[p] = "i_chain" /\ pc'[p] = "i_secret")
                => LET a == loc[p].args
                       ref == Len(heap) + 1
                       id == loc'[p].swap_id
                   IN /\ Len(heap') = ref
                      /\ SubSeq(heap', 1, Len(heap)) = heap
                      /\ active_swaps' = [active_swaps EXCEPT ![id] = ref]
                      /\ loc'[p].swap = ref
                      /\ heap'[ref].swap_id = id
                      /\ heap'[ref].status = INITIATED
                      /\ heap'[ref].sender = a.sender
                      /\ heap'[ref].recipient = a.recipient
                      /\ heap'[ref].amount = a.amount
                      /\ heap'[ref].source_chain = a.source_chain
                      /\ heap'[ref].target_chain = a.target_chain
                      /\ heap'[ref].source_tx_hash =
                             <<TxHash(a.secret.token, "initiateCrossChain")>>
                      /\ heap'[ref].target_tx_hash = <<>>
          /\ (pc[p] = "i_secret" /\ pc'[p] = "idle")
                => /\ ret'.op = "initiate"
                   /\ ret'.result = TRUE
                   /\ ret'.swap = loc[p].swap
                   /\ active_swaps'[loc[p].swap_id] = ret'.swap
                   /\ swap_secrets'[loc[p].swap_id] = <<heap'[ret'.swap].secret>>
                   /\ UNCHANGED <<active_swaps, heap>>]_vars

\* an initiate_bnb_to_eth_swap has just returned its swap, stored as Initiated
C13_Witness ==
    /\ ret.op = "initiate"
    /\ ret.result = TRUE
    /\ heap[ret.swap].source_chain = "bsc"
    /\ heap[ret.swap].target_chain = "ethereum"
    /\ heap[ret.swap].status = INITIATED
    /\ active_swaps[heap[ret.swap].swap_id] = ret.swap

\* the first with self._lock block of complete_cross_chain_swap turns a
\* call for swap_id away
CompleteRejects(swap_id) ==
    \/ active_swaps[swap_id] = NullRef
    \/ heap[active_swaps[swap_id]].status # INITIATED
    \/ swap_secrets[swap_id] = <<>>

\* the complete calls that have returned success for swap_id
CompletesOf(swap_id) ==
    UNION {{e \in log[ref].succeeded : e.op = "complete"} :
              ref \in {r \in Refs : heap[r].swap_id = swap_id}}

\* C14: once a complete of a swap id has returned success, every complete
\* of that id called afterwards returns failure without sending anything
\* or changing the store: in every later state the record stored under the
\* id is Completed, with the target_tx_hash a successful complete recorded,
\* so that the status check turns the call away.
C14_SecondCompleteFails ==
    /\ [](\A swap_id \in SwapIds :
            CompletesOf(swap_id) # {}
                => /\ CompleteRejects(swap_id)
                   /\ heap[active_swaps[swap_id]].status = COMPLETED
                   /\ heap[active_swaps[swap_id]].target_tx_hash \in
                          {<<TxHash(e.by, "mintForCrossChain")>> : e \in CompletesOf(swap_id)})
    /\ [][\A p \in Procs, swap_id \in SwapIds :
            (CompleteCheck(p, swap_id) /\ CompletesOf(swap_id) # {})
                => /\ pc'[p] = "idle"
                   /\ ret'.result = FALSE
                   /\ ret'.run.sent = <<>>
                   /\ UNCHANGED store]_vars

\* C15: a step of the sweep (monitor_active_swaps) changes nothing of the
\* store but the status of the swap it visits, and that only from Initiated
\* to Expired and only when the height of the source chain of the swap is
\* strictly greater than its time_lock; a swap that is Completed, Refunded,
\* Failed or Expired when the sweep visits it is left as it is.
C15_SweepOnlyExpiresInitiatedSwaps ==
    [][pc[Monitor] = "m_sweep"
          => /\ UNCHANGED <<active_swaps, swap_secrets>>
             /\ Len(heap') = Len(heap)
             /\ \A ref \in Refs :
                   heap'[ref] # heap[ref]
                       => /\ heap[ref].status = INITIATED
                          /\ heap'[ref] = [heap[ref] EXCEPT !.status = EXPIRED]
                          /\ height[heap[ref].source_chain] > heap[ref].time_lock]_vars

\* the sweep holds the lock next to a Completed swap whose time_lock has
\* passed and has marked another swap Expired
C15_Witness ==
    /\ pc[Monitor] = "m_sweep"
    /\ \E ref \in Refs :
          /\ heap[ref].status = COMPLETED
          /\ height[heap[ref].source_chain] > heap[ref].time_lock
          /\ active_swaps[heap[ref].swap_id] = ref
          /\ heap[ref].swap_id \notin todo
    /\ \E ref \in Refs : heap[ref].status = EXPIRED

\* C16: an initiate never replaces a record that is already stored: when the
\* id extracted from its receipt is present in active_swaps, the entry of
\* that id and its secret stay what they were.
C16_DuplicateIdKeepsExistingRecord ==
    [][\A p \in Procs :
          (pc[p] \in {"i_chain", "i_secret"} /\ pc'[p] # pc[p])
              => \A swap_id \in SwapIds :
                    /\ active_swaps[swap_id] # NullRef
                          => active_swaps'[swap_id] = active_swaps[swap_id]
                    /\ swap_secrets[swap_id] # <<>>
                          => swap_secrets'[swap_id] = swap_secrets[swap_id]]_vars

\* the outcomes of the calls of a refund in which the swap does not count as
\* expired or the refund transaction is not built, not sent or not confirmed
\* with a successful receipt
FailedRefundOutcomes ==
    {o \in BOOLEAN \X BuildResults \X SendResults \X WaitResults :
        ~o[1] \/ o[2] # "ok" \/ o[3] # "ok" \/ o[4] # "ok"}

\* C17: a refund of a swap that was Initiated at its status check returns
\* success, with the status set to Refunded, exactly when its refund
\* transaction was built, sent and confirmed with a successful receipt; on
\* every other path (not expired, not built, not sent, no receipt, a
\* reverted receipt, an error raised) it returns failure and changes no swap.
C17_RefundSucceedsIffConfirmed ==
    [][\A p \in Procs :
          (pc[p] = "r_chain" /\ pc'[p] = "idle")
              => LET run == ret'.run
                     ref == loc[p].swap
                 IN /\ ret'.op = "refund"
                    /\ ret'.swap = ref
                    /\ \A o \in FailedRefundOutcomes, q \in GetLatestBlock(heap[ref].source_chain) :
                          RefundRun(o[1], q, o[2], o[3], o[4]).refund # "confirmed"
                    /\ ret'.result = TRUE <=> run.refund = "confirmed"
                    /\ run.refund = "confirmed"
                          => /\ run.sent = <<"refundCrossChain">>
                             /\ heap' = [heap EXCEPT ![ref].status = REFUNDED]
                    /\ run.refund # "confirmed" => heap' = heap
                    /\ UNCHANGED <<active_swaps, swap_secrets>>]_vars

\* a refund past the time_lock has just failed on its receipt and the swap
\* is still Initiated
C17_Witness ==
    /\ ret.op = "refund"
    /\ ret.result = FALSE
    /\ ret.run.refund = "failed"
    /\ ret.run.queried # <<>>
    /\ heap[ret.swap].status = INITIATED

\* the with self._lock block of refund_cross_chain_swap turns a call for
\* swap_id away
RefundRejects(swap_id) ==
    \/ active_swaps[swap_id] = NullRef
    \/ heap[active_swaps[swap_id]].status # INITIATED

\* a call of thread p has returned failure in its first step, having sent
\* and queried nothing and changed nothing
FailsAtOnce(p) ==
    /\ pc'[p] = "idle"
    /\ ret'.result = FALSE
    /\ ret'.run.sent = <<>>
    /\ ret'.run.queried = <<>>
    /\ UNCHANGED <<store, log>>

\* C18: a complete or a refund called with an id that is not stored or on a
\* swap whose status is not Initiated, and a complete of a swap without a
\* stored secret, returns failure having sent no transaction, made no query
\* of a chain and changed nothing of the store.
C18_RejectedCallsChangeNothing ==
    [][\A p \in Procs, swap_id \in SwapIds :
          /\ (CompleteCheck(p, swap_id) /\ CompleteRejects(swap_id)) => FailsAtOnce(p)
          /\ (RefundCheck(p, swap_id) /\ RefundRejects(swap_id)) => FailsAtOnce(p)]_vars

\* a complete has just been turned away from a Refunded swap
C18_Witness ==
    /\ ret.op = "complete"
    /\ ret.run.end = "rejected"
    /\ ret.result = FALSE
    /\ heap[ret.swap].status = REFUNDED

\* C19: a swap id that is in active_swaps stays in it, and so does its
\* secret, whatever step follows; an id enters active_swaps only in the
\* storing step of an initiate whose chain calls all succeeded.
C19_SwapsAreNeverDeleted ==
    [][\A swap_id \in SwapIds :
             /\ active_swaps[swap_id] # NullRef => active_swaps'[swap_id] # NullRef
             /\ swap_secrets[swap_id] # <<>> => swap_secrets'[swap_id] # <<>>
             /\ (active_swaps[swap_id] = NullRef /\ active_swaps'[swap_id] # NullRef)
                   => \E p \in Procs :
                         /\ pc[p] = "i_chain"
                         /\ pc'[p] = "i_secret"
                         /\ loc'[p].swap_id = swap_id
                         /\ loc'[p].run.end = "ok"]_vars

\* a refund has been turned away from a Completed swap, which is still
\* stored with its secret
C19_Witness ==
    /\ ret.op = "refund"
    /\ ret.run.end = "rejected"
    /\ active_swaps[heap[ret.swap].swap_id] = ret.swap
    /\ swap_secrets[heap[ret.swap].swap_id] # <<>>
    /\ heap[ret.swap].status = COMPLETED
    /\ heap[ret.swap].target_tx_hash # <<>>

\* C20: a respond (manager_respond_to_swap), whether it succeeds or fails,
\* creates, removes and modifies no swap record and no secret; it succeeds
\* exactly when its lock on the target chain was confirmed.
C20_RespondLeavesTheStoreAlone ==
    [][\A p \in Procs :
          manager_respond_to_swap(p)
              => /\ UNCHANGED store
                 /\ pc'[p] = "idle"
                 /\ ret'.op = "respond"
                 /\ ret'.result = TRUE
                       <=> ret'.run = [NoRun EXCEPT !.sent = <<"managerRespondToCrossChain">>,
                                                    !.end = "ok"]]_vars

\* a respond has just succeeded next to a stored swap
C20_Witness ==
    /\ ret.op = "respond"
    /\ ret.result = TRUE
    /\ ret.run.sent = <<"managerRespondToCrossChain">>
    /\ \E swap_id \in SwapIds :
          /\ active_swaps[swap_id] # NullRef
          /\ swap_secrets[swap_id] # <<>>

\* C21: a swap is Failed only through a complete that succeeded in part: in
\* every state a Failed swap has had its claim on the source chain confirmed
\* and has not had its release on the target chain confirmed.
C21_FailedMeansClaimedButNotReleased ==
    \A ref \in Refs :
        heap[ref].status = FAILED
            => /\ "completeCrossChain" \in log[ref].confirmed
               /\ "mintForCrossChain" \notin log[ref].confirmed

\* ------------------------------------------------------------- fairness
\* the monitor thread keeps running: it takes the lock when it is free, goes
\* through its loop and its time.sleep returns
MonitorStep ==
    \/ MonitorEnter
    \/ \E swap_id \in SwapIds : MonitorVisit(swap_id)
    \/ MonitorRaise
    \/ MonitorExit
    \/ MonitorSleep

\* a caller inside a with self._lock block runs to its end and releases the
\* lock
ReleaseStep ==
    \E p \in Procs : InitiateStoreSecret(p) \/ CompleteSetTxHash(p)

SpecFair == Spec /\ WF_vars(MonitorStep) /\ WF_vars(ReleaseStep)

\* C22: the monitor never stops: whenever an iteration of its loop has
\* ended, by a return or by an exception, and it sleeps, a further call of
\* monitor_active_swaps follows, so that sweeps are made again and again.
C22_MonitorNeverStops ==
    /\ []<>(pc[Monitor] = "m_sweep")
    /\ (pc[Monitor] = "m_sleep") ~> (pc[Monitor] = "m_sweep")

\* the monitor sleeps after an iteration that raised an exception
C22_Witness ==
    /\ pc[Monitor] = "m_sleep"
    /\ timer = sleep_after_error
    /\ \E ref \in Refs : heap[ref].status = INITIATED

\* ------------------------------------------------ generate_secret, in hex
\* generate_secret on the representation it works with: secrets.token_hex
\* draws nbytes random bytes and returns them as 2 * nbytes hexadecimal
\* digits, bytes.fromhex turns the digits back into bytes and
\* hashlib.sha256(...).hexdigest() is the digest of those bytes
HexDigits == <<"0", "1", "2", "3", "4", "5", "6", "7",
               "8", "9", "a", "b", "c", "d", "e", "f">>
Bytes == {0, 9, 10, 171, 255}
ByteStrings(n) == [1..n -> Bytes]

\* bytes.hex: two digits for every byte, the high one first
hex(b) ==
    [i \in 1..(2 * Len(b)) |->
        IF i % 2 = 1 THEN HexDigits[(b[(i + 1) \div 2] \div 16) + 1]
        ELSE HexDigits[(b[i \div 2] % 16) + 1]]

HexValue(c) == CHOOSE v \in 0..15 : HexDigits[v + 1] = c

\* bytes.fromhex
fromhex(s) ==
    [i \in 1..(Len(s) \div 2) |-> 16 * HexValue(s[2 * i - 1]) + HexValue(s[2 * i])]

\* secrets.token_hex returning nbytes digits for nbytes \div 2 bytes
token_hex_of_digits(nbytes) == {hex(b) : b \in ByteStrings(nbytes \div 2)}

\* secrets.token_hex
token_hex(nbytes) == {hex(b) : b \in ByteStrings(nbytes)}

\* generate_secret with config.CROSS_CHAIN.secret_length = n
generate_secret_of_length(n) ==
    {<<secret, SHA256(fromhex(secret))>> : secret \in token_hex(n)}

\* a call of generate_secret under some configured secret length
GenerateSecret ==
    /\ \E n \in 1..MaxSecretLength : \E pair \in generate_secret_of_length(n) :
          ret' = [op |-> "generate_secret", secret_length |-> n,
                  secret |-> pair[1], hash_lock |-> pair[2]]
    /\ UNCHANGED <<active_swaps, swap_secrets, heap, lock, height, pc, loc, todo, log, ncalls, timer>>

SpecSecret == Init /\ [][GenerateSecret]_vars

\* C23: every pair generate_secret returns is a secret of exactly the
\* configured number of bytes, written as twice as many hexadecimal digits
\* (64 for the default length of 32 bytes), with the SHA-256 digest of those
\* bytes as its hash lock.
C23_GeneratedPairIsSecretAndItsDigest ==
    /\ 2 * secret_length = 64
    /\ ret.op = "generate_secret"
          => /\ Len(ret.secret) = 2 * ret.secret_length
             /\ \A i \in 1..Len(ret.secret) :
                   \E v \in 0..15 : HexDigits[v + 1] = ret.secret[i]
             /\ Len(fromhex(ret.secret)) = ret.secret_length
             /\ hex(fromhex(ret.secret)) = ret.secret
             /\ ret.hash_lock = SHA256(fromhex(ret.secret))

\* a secret of three bytes was generated whose digits are not all the same
C23_Witness ==
    /\ ret.op = "generate_secret"
    /\ ret.secret_length = MaxSecretLength
    /\ fromhex(ret.secret)[1] = 171
    /\ fromhex(ret.secret)[2] = 9
    /\ ret.secret[1] = "a"
    /\ ret.secret[2] = "b"
    /\ ret.secret[4] = "9"

\* ------------------------------------ initiate, secret pair and time lock
\* _initiate_cross_chain_swap called with and without a secret, a hash lock
\* and a number of time lock blocks; the hash lock a caller passes is the
\* digest of the secret it passes or the digest of something else
SecretInputs(n) == {<<>>, <<Token(n)>>}
HashLockInputs(n) == {<<>>, <<SHA256(Token(n))>>, <<SHA256(NoSecret)>>}
TimeLockOptions == {<<>>, <<1>>}
DirectionInputs == {<<"ethereum", "bsc">>, <<"bsc", "ethereum">>}

InitiateSupplied(p) ==
    \E chains \in DirectionInputs, secret \in SecretInputs(Fresh),
       hash_lock \in HashLockInputs(Fresh), time_lock_blocks \in TimeLockOptions :
        initiate_cross_chain_swap(p, chains[1], chains[2], "alice", "bob",
                                  min_swap_amount, time_lock_blocks, secret, hash_lock)

NextSupplied ==
    \/ \E p \in Procs : InitiateSupplied(p)
    \/ \E p \in Procs : InitiateChain(p)
    \/ \E p \in Procs : InitiateStoreSecret(p)

SpecSupplied == Init /\ [][NextSupplied]_vars

\* C24: in every state the hash lock of every stored swap is the SHA-256
\* digest of its secret and, outside the with self._lock blocks, of the
\* secret stored for its id, also when the pair was passed to initiate by
\* its caller.
C24_HashLockIsDigestOfSecret ==
    /\ \A ref \in Refs : heap[ref].hash_lock = SHA256(heap[ref].secret)
    /\ \A swap_id \in SwapIds :
          (lock = Free /\ active_swaps[swap_id] # NullRef /\ swap_secrets[swap_id] # <<>>)
              => heap[active_swaps[swap_id]].hash_lock = SHA256(swap_secrets[swap_id][1])

\* C25: every swap initiate has stored has an amount from min_swap_amount
\* to max_swap_amount, a sender and a recipient that are not empty and two
\* supported chains, and so have the arguments of every initiate that has
\* reached its chain calls: the checks come before the first of them.
C25_StoredSwapsAreValid ==
    /\ \A ref \in Refs :
          ~InvalidParams(heap[ref].source_chain, heap[ref].target_chain,
                         heap[ref].sender, heap[ref].recipient, heap[ref].amount)
    /\ \A p \in Procs :
          pc[p] \in {"i_chain", "i_secret"}
              => ~InvalidParams(loc[p].args.source_chain, loc[p].args.target_chain,
                                loc[p].args.sender, loc[p].args.recipient,
                                loc[p].args.amount)

\* a swap of the minimum amount and a swap of the maximum amount are
\* stored, after an initiate with invalid arguments was turned away
C25_Witness ==
    /\ \E ref \in Refs : heap[ref].amount = min_swap_amount
    /\ \E ref \in Refs : heap[ref].amount = max_swap_amount
    /\ ncalls > Len(heap)
    /\ \A p \in Procs : pc[p] = "idle"

\* the threads that are in the middle of their calls of the chain adapter:
\* a caller between the first and the last chain call of its operation, the
\* monitor when _is_swap_expired is about to ask for the height of the
\* source chain of an Initiated swap
ChainCallers ==
    {p \in Procs : pc[p] \in {"i_chain", "c_chain", "r_chain"}} \cup
    (IF /\ pc[Monitor] = "m_sweep"
        /\ \E swap_id \in todo : heap[active_swaps[swap_id]].status = INITIATED
     THEN {Monitor} ELSE {})

\* C26: get_swap_status never waits for a chain call of another operation:
\* no thread holds the lock, which get_swap_status has to take, while it is
\* in the middle of its calls of the chain adapter.
C26_StatusLookupNeverWaitsForAChain ==
    lock \notin ChainCallers

\* the transactions an operation may send, in their order
Transactions(op) ==
    CASE op = "initiate" -> <<"initiateCrossChain">>
      [] op = "complete" -> <<"completeCrossChain", "mintForCrossChain">>
      [] op = "refund" -> <<"refundCrossChain">>
      [] op = "respond" -> <<"managerRespondToCrossChain">>
      [] OTHER -> <<>>

\* sent holds each transaction of op at most once, in the order of op
SentAtMostOnce(op, sent) ==
    LET Position(x) == CHOOSE k \in 1..Len(Transactions(op)) : Transactions(op)[k] = x IN
    /\ \A i \in 1..Len(sent) : Contains(Transactions(op), sent[i])
    /\ \A i \in 1..Len(sent) : \A j \in 1..Len(sent) :
          i < j => Position(sent[i]) < Position(sent[j])

\* C27: no operation retries: one call of initiate, complete, refund or
\* respond sends each of its transactions (the lock; the claim and the
\* release; the refund; the lock of the responder) at most once, however its
\* chain calls end.
C27_EachTransactionSentAtMostOnce ==
    /\ ret.op # "none" => SentAtMostOnce(ret.op, ret.run.sent)
    /\ \A p \in Procs :
          pc[p] \in {"i_secret", "c_txhash"} => SentAtMostOnce(loc[p].op, loc[p].run.sent)

\* a complete has just failed on the receipt of its release, after its
\* claim was confirmed
C27_Witness ==
    /\ ret.op = "complete"
    /\ ret.result = FALSE
    /\ ret.run.sent = <<"completeCrossChain", "mintForCrossChain">>
    /\ ret.run.mint = "failed"

\* C28: after an iteration in which monitor_active_swaps returned, the
\* monitor waits sleep_after_sweep = 30 seconds, after one in which it raised
\* an exception sleep_after_error = 60 seconds, and it starts its next
\* iteration only when all of that time has passed.
C28_MonitorSleepsThirtyOrSixtySeconds ==
    /\ sleep_after_sweep = 30
    /\ sleep_after_error = 60
    /\ [][/\ (pc[Monitor] = "m_sweep" /\ pc'[Monitor] # "m_sweep")
                => /\ pc'[Monitor] = "m_sleep"
                   /\ timer' = IF todo = {} THEN sleep_after_sweep ELSE sleep_after_error
          /\ (pc[Monitor] = "m_sleep" /\ <<pc[Monitor], timer>> # <<pc'[Monitor], timer'>>)
                => /\ timer' = timer - TimeStep
                   /\ timer' >= 0
                   /\ pc'[Monitor] = IF timer' = 0 THEN "idle" ELSE "m_sleep"
          /\ (pc[Monitor] # "m_sweep" /\ pc'[Monitor] = "m_sweep")
                => /\ pc[Monitor] = "idle"
                   /\ timer = 0]_vars

\* the monitor starts its sleep of 60 seconds after an iteration that raised
\* an exception, next to a swap an earlier iteration, followed by a sleep of
\* 30 seconds, marked Expired
C28_Witness ==
    /\ pc[Monitor] = "m_sleep"
    /\ timer = sleep_after_error
    /\ \E ref \in Refs : heap[ref].status = EXPIRED
    /\ \E ref \in Refs : heap[ref].status = INITIATED

\* the sweep visits swap_id, reads the height of its source chain and marks
\* the swap Expired
MonitorExpire(swap_id) ==
    /\ MonitorVisit(swap_id)
    /\ heap'[active_swaps[swap_id]].status = EXPIRED

\* the chains stay readable: a sweep that again and again comes to ask for
\* the height a swap is waiting on is answered in the end
SpecReadable == SpecFair /\ \A swap_id \in SwapIds : SF_vars(MonitorExpire(swap_id))

\* the swap stored under swap_id is Initiated and the height of its source
\* chain is past its time_lock
Overdue(swap_id) ==
    /\ active_swaps[swap_id] # NullRef
    /\ heap[active_swaps[swap_id]].status = INITIATED
    /\ height[heap[active_swaps[swap_id]].source_chain] > heap[active_swaps[swap_id]].time_lock

\* C29: with the monitor running and the chains readable, a stored swap
\* that is Initiated with the height of its source chain strictly past its
\* time_lock does not stay so for ever: a sweep marks it Expired, or a
\* caller moves it out of Initiated first, whatever else is in the store.
C29_OverdueSwapLeavesInitiated ==
    \A swap_id \in SwapIds : Overdue(swap_id) ~> ~Overdue(swap_id)

\* the sweep has marked both stored swaps Expired
C29_Witness ==
    /\ \A swap_id \in SwapIds :
          /\ active_swaps[swap_id] # NullRef
          /\ heap[active_swaps[swap_id]].status = EXPIRED
    /\ active_swaps["0xa"] # active_swaps["0xb"]

\* the secrets of the stored swaps and of the initiates that are running
SecretsInUse ==
    {heap[ref].secret : ref \in Refs} \cup
    {loc[p].args.secret : p \in {t \in Procs : pc[t] \in {"i_chain", "i_secret"}}}

\* C30: an initiate that is given a secret and a hash lock uses that pair
\* unchanged, one that is given neither uses a pair generate_secret has
\* freshly drawn; one that is given no time_lock_blocks uses the configured
\* default_time_lock_blocks; the pair and the time lock it uses are those of
\* its lock transaction, of the swap it stores and of the secret it stores.
C30_InitiateKeepsSuppliedPairAndDefaultsTimeLock ==
    [][\A p \in Procs :
          /\ \A chains \in DirectionInputs, secret \in SecretInputs(Fresh),
                hash_lock \in HashLockInputs(Fresh), time_lock_blocks \in TimeLockOptions :
                initiate_cross_chain_swap(p, chains[1], chains[2], "alice", "bob",
                                          min_swap_amount, time_lock_blocks, secret, hash_lock)
                    => LET a == loc'[p].args IN
                       /\ pc'[p] = "i_chain"
                       /\ (secret # <<>> /\ hash_lock # <<>>)
                             => (a.secret = secret[1] /\ a.hash_lock = hash_lock[1])
                       /\ (secret = <<>> /\ hash_lock = <<>>)
                             => /\ a.hash_lock = SHA256(a.secret)
                                /\ a.secret \notin SecretsInUse
                       /\ a.time_lock_blocks =
                             IF time_lock_blocks = <<>> THEN default_time_lock_blocks
                             ELSE time_lock_blocks[1]
                       /\ LockTxArgs(a) = <<a.hash_lock, "bob", min_swap_amount, a.time_lock_blocks>>
          /\ (pc[p] = "i_chain" /\ pc'[p] = "i_secret")
                => /\ heap'[loc'[p].swap].secret = loc[p].args.secret
                   /\ heap'[loc'[p].swap].hash_lock = LockTxArgs(loc[p].args)[1]
                   /\ heap'[loc'[p].swap].time_lock = LockTxArgs(loc[p].args)[4]
          /\ (pc[p] = "i_secret" /\ pc'[p] = "idle")
                => swap_secrets'[loc[p].swap_id] = <<loc[p].args.secret>>]_vars

\* an initiate has returned a swap with the default time lock, next to a
\* stored swap with the time lock its caller asked for, each with its own
\* secret
C30_Witness ==
    /\ ret.op = "initiate"
    /\ ret.result = TRUE
    /\ heap[ret.swap].time_lock = default_time_lock_blocks
    /\ \E ref \in Refs :
          /\ heap[ref].time_lock = 1
          /\ heap[ref].secret # heap[ret.swap].secret
    /\ swap_secrets[heap[ret.swap].swap_id] = <<heap[ret.swap].secret>>

\* C31: a swap and its secret are stored together: outside the with
\* self._lock block of an initiate, which no other operation can look into,
\* the ids that have a secret are the ids that have a swap and the secret
\* stored for an id is the secret field of its swap, so that a complete of
\* a stored Initiated swap is never turned away for a missing secret.
C31_SwapAndSecretStoredTogether ==
    /\ [](/\ \A p \in Procs : pc[p] = "i_secret" => lock = p
          /\ (\A p \in Procs : pc[p] # "i_secret")
                => \A swap_id \in SwapIds :
                      /\ active_swaps[swap_id] # NullRef <=> swap_secrets[swap_id] # <<>>
                      /\ active_swaps[swap_id] # NullRef
                            => swap_secrets[swap_id] = <<heap[active_swaps[swap_id]].secret>>)
    /\ [][\A p \in Procs, swap_id \in SwapIds :
             (/\ CompleteCheck(p, swap_id)
              /\ active_swaps[swap_id] # NullRef
              /\ heap[active_swaps[swap_id]].status = INITIATED)
                 => /\ pc'[p] = "c_chain"
                    /\ loc'[p].secret = heap[active_swaps[swap_id]].secret]_vars

\* a complete has taken the secret of a swap that a second initiate stored
\* under the id of an earlier one
C31_Witness ==
    /\ \E p \in Procs :
          /\ pc[p] = "c_chain"
          /\ loc[p].swap = 2
          /\ loc[p].secret = heap[2].secret
          /\ heap[1].swap_id = heap[2].swap_id
    /\ Len(heap) = 2

\* ------------------------------------------------ the status route
\* what the route GET /cross-chain/status/<swap_id> answers: 404 without a
\* swap, else the fields read from the CrossChainSwap object
StatusAnswer(ref, status, target_tx_hash) ==
    [op |-> "status_route", swap |-> ref, result |-> ref # NullRef, run |-> NoRun,
     status |-> status, target_tx_hash |-> target_tx_hash]

\* get_cross_chain_status up to swap = get_swap_status(swap_id): the lookup
\* with self._lock returns the stored object itself, and the 404 answer
get_cross_chain_status(p, swap_id) ==
    /\ CanCall(p)
    /\ lock = Free
    /\ ncalls' = ncalls + 1
    /\ IF active_swaps[swap_id] = NullRef
       THEN /\ pc' = [pc EXCEPT ![p] = "idle"]
            /\ loc' = [loc EXCEPT ![p] = IdleLoc]
            /\ ret' = StatusAnswer(NullRef, "", <<>>)
       ELSE /\ pc' = [pc EXCEPT ![p] = "s_status"]
            /\ loc' = [loc EXCEPT ![p] = [IdleLoc EXCEPT !.op = "status_route",
                                                         !.swap_id = swap_id,
                                                         !.swap = active_swaps[swap_id]]]
            /\ ret' = NoRet
    /\ UNCHANGED <<active_swaps, swap_secrets, heap, lock, height, todo, log, timer>>

\* 'status': swap.status.value, read from the object without the lock; the
\* value read is kept in loc[p].op until the answer is made
StatusRouteReadStatus(p) ==
    /\ pc[p] = "s_status"
    /\ pc' = [pc EXCEPT ![p] = "s_txhash"]
    /\ loc' = [loc EXCEPT ![p].op = heap[loc[p].swap].status]
    /\ ret' = NoRet
    /\ UNCHANGED <<active_swaps, swap_secrets, heap, lock, height, todo, log, ncalls, timer>>

\* 'target_tx_hash': swap.target_tx_hash, read from the object without the
\* lock, and the answer of the route
StatusRouteReadTxHash(p) ==
    /\ pc[p] = "s_txhash"
    /\ pc' = [pc EXCEPT ![p] = "idle"]
    /\ loc' = [loc EXCEPT ![p] = IdleLoc]
    /\ ret' = StatusAnswer(loc[p].swap, loc[p].op, heap[loc[p].swap].target_tx_hash)
    /\ UNCHANGED <<active_swaps, swap_secrets, heap, lock, height, todo, log, ncalls, timer>>

NextStatusRoute ==
    \/ Next
    \/ \E p \in Procs, swap_id \in SwapIds : get_cross_chain_status(p, swap_id)
    \/ \E p \in Procs : StatusRouteReadStatus(p)
    \/ \E p \in Procs : StatusRouteReadTxHash(p)

\* the coordinator with request threads that serve the status route
SpecStatusRoute == Init /\ [][NextStatusRoute]_vars

\* C32: Completed and target_tx_hash are written in one atomic step: the
\* status route never answers with the status Completed and no
\* target_tx_hash.
C32_NoCompletedWithoutTargetTxHashObserved ==
    ~ (/\ ret.op = "status_route"
       /\ ret.result
       /\ ret.status = COMPLETED
       /\ ret.target_tx_hash = <<>>)

\* C33: target_tx_hash is set only on Completed swaps: a swap object whose
\* status is Initiated, Expired, Refunded or Failed has no target_tx_hash.
C33_TargetTxHashOnlyOnCompleted ==
    \A ref \in Refs :
        heap[ref].status \in {INITIATED, EXPIRED, REFUNDED, FAILED}
            => heap[ref].target_tx_hash = <<>>

\* the fields of a swap object that only its construction assigns
Constructed(swap) ==
    [swap EXCEPT !.status = INITIATED, !.target_tx_hash = <<>>]

\* a step that leaves the dictionaries and the number of objects alone and
\* changes of the objects at most the status of those in refs, and their
\* target_tx_hash when with_tx_hash
ChangesOnlyStatus(refs, with_tx_hash) ==
    /\ UNCHANGED <<active_swaps, swap_secrets>>
    /\ Len(heap') = Len(heap)
    /\ \A ref \in Refs :
          /\ Constructed(heap'[ref]) = Constructed(heap[ref])
          /\ ref \notin refs => heap'[ref] = heap[ref]
          /\ ~ with_tx_hash => heap'[ref].target_tx_hash = heap[ref].target_tx_hash

\* C34: complete, refund and the sweep change nothing but the status of the
\* swap they act on, and complete its target_tx_hash: every other field of
\* that swap, every other swap (for the sweep: every swap but for its
\* status) and both dictionaries stay as they are.
C34_OnlyStatusAndTargetTxHashChange ==
    [][/\ \A p \in Procs :
             /\ (\E swap_id \in SwapIds : CompleteCheck(p, swap_id) \/ RefundCheck(p, swap_id))
                   => ChangesOnlyStatus({}, FALSE)
             /\ (CompleteChain(p) \/ CompleteSetTxHash(p))
                   => /\ ChangesOnlyStatus({loc[p].swap}, TRUE)
                      /\ heap[loc[p].swap].swap_id = loc[p].swap_id
             /\ RefundChain(p)
                   => /\ ChangesOnlyStatus({loc[p].swap}, FALSE)
                      /\ heap[loc[p].swap].swap_id = loc[p].swap_id
       /\ MonitorStep => ChangesOnlyStatus({active_swaps[swap_id] : swap_id \in todo}, FALSE)]_vars

\* a sweep and a complete have acted on two swaps: the sweep made one of
\* them Expired, and the complete of the other has just returned success
C34_Witness ==
    /\ Len(heap) = 2
    /\ heap[1].swap_id # heap[2].swap_id
    /\ heap[1].status = COMPLETED
    /\ heap[1].target_tx_hash # <<>>
    /\ heap[2].status = EXPIRED
    /\ ret.op = "complete"
    /\ ret.swap = 1
    /\ ret.result

\* the arguments of completeCrossChain, of mintForCrossChain and of
\* refundCrossChain as complete_cross_chain_swap and refund_cross_chain_swap
\* pass them to build_transaction
ClaimTxArgs(swap_id, secret) == <<swap_id, secret>>
MintTxArgs(swap) == <<swap.recipient, swap.amount>>
RefundTxArgs(swap_id) == <<swap_id>>

InsideWith(t) ==
    IF t = Monitor THEN pc[t] = "m_sweep" ELSE pc[t] \in {"i_secret", "c_txhash"}

\* C36: the lock is released on every path and never taken by its holder:
\* a thread holds the lock exactly while it is inside a with self._lock
\* block, a held lock is always released again, and the monitor, which
\* waits for the lock before each sweep, always gets it, whatever the
\* initiate, complete, refund and get_swap_status calls beside it do.
C36_LockAlwaysReleased ==
    /\ [](\A t \in Procs \cup {Monitor} : lock = t <=> InsideWith(t))
    /\ [][\A t \in Procs \cup {Monitor} : lock' = t /\ lock # t => lock = Free]_vars
    /\ (lock # Free) ~> (lock = Free)
    /\ (pc[Monitor] = "idle") ~> (lock = Monitor)

\* the monitor holds the lock in the middle of a sweep while one caller is
\* in the try block of a complete and the other in that of an initiate,
\* both having to take the lock for their writes
C36_Witness ==
    /\ lock = Monitor
    /\ todo # {}
    /\ pc["t1"] = "c_chain"
    /\ pc["t2"] = "i_chain"

\* ----------------------------------------------- the active-swaps route
\* the keys of active_swaps
StoredIds == {swap_id \in SwapIds : active_swaps[swap_id] # NullRef}

\* what the route GET /cross-chain/active answers: the list it built, or the
\* 500 of its except block
ListingAnswer(ok, listed) ==
    [op |-> "listing", swap |-> NullRef, result |-> ok, run |-> NoRun, listed |-> listed]

\* get_active_swaps up to the start of its for loop: the iterator over
\* active_swaps.items() notes the size of the dictionary; no lock is taken
get_active_swaps(p) ==
    /\ CanCall(p)
    /\ ncalls' = ncalls + 1
    /\ pc' = [pc EXCEPT ![p] = "l_iter"]
    /\ loc' = [loc EXCEPT ![p] = [op |-> "listing", size |-> Cardinality(StoredIds),
                                  left |-> StoredIds, listed |-> {}]]
    /\ ret' = NoRet
    /\ UNCHANGED <<active_swaps, swap_secrets, heap, lock, height, todo, log, timer>>

\* one step of the for loop of get_active_swaps: the iterator raises
\* RuntimeError when the dictionary has changed its size, the route answers
\* with its list when no entry is left, and otherwise the entry's fields as
\* they are now are appended to the list
ListingNext(p) ==
    /\ pc[p] = "l_iter"
    /\ IF Cardinality(StoredIds) # loc[p].size
       THEN /\ pc' = [pc EXCEPT ![p] = "idle"]
            /\ loc' = [loc EXCEPT ![p] = IdleLoc]
            /\ ret' = ListingAnswer(FALSE, {})
       ELSE IF loc[p].left = {}
       THEN /\ pc' = [pc EXCEPT ![p] = "idle"]
            /\ loc' = [loc EXCEPT ![p] = IdleLoc]
            /\ ret' = ListingAnswer(TRUE, loc[p].listed)
       ELSE \E swap_id \in loc[p].left :
               /\ loc' = [loc EXCEPT ![p].left = @ \ {swap_id},
                                     ![p].listed = @ \cup
                                        {<<heap[active_swaps[swap_id]].swap_id,
                                           heap[active_swaps[swap_id]].status>>}]
               /\ ret' = NoRet
               /\ UNCHANGED pc
    /\ UNCHANGED <<active_swaps, swap_secrets, heap, lock, height, todo, log, ncalls, timer>>

NextListing ==
    \/ Next
    \/ \E p \in Procs : get_active_swaps(p)
    \/ \E p \in Procs : ListingNext(p)

\* the coordinator with request threads that serve the active-swaps route
SpecListing == Init /\ [][NextListing]_vars

\* C37: the listing of the active swaps never fails: the route does not
\* answer with its error because an initiate stored a swap while the list
\* was being built.
C37_ListingNeverFails ==
    ~ (ret.op = "listing" /\ ~ ret.result)

====
